---- MODULE Spec2Model ----
(***************************************************************************)
(* Live-updating view objects (packages render and spork).                 *)
(*                                                                         *)
(* A view holds data fields and a display_id; display() publishes its      *)
(* rendered content on the host display surface, update() refreshes the    *)
(* entry with that display_id, and the auto-updating variants call         *)
(* update() from __setattr__.  The host surface (IPython.display.display)  *)
(* is an external collaborator: it is modelled as obtaining the payload    *)
(* from the view's _repr_mimebundle_ (decorated classes) or _repr_html_,   *)
(* recording one publish or refresh call, and letting an exception raised  *)
(* by the payload method propagate to its caller.                          *)
(*                                                                         *)
(* Strings are sequences of characters.                                    *)
(***************************************************************************)
EXTENDS Naturals, Sequences, FiniteSets, TLC

VARIABLES views, calls, ip, uuids, hist, last

vars == <<views, calls, ip, uuids, hist, last>>

----------------------------------------------------------------------------
(* Bounds *)

\* longest string held by a field or an object
MaxLen == 2
\* longest log of host display calls
MaxCalls == 2

Ids == {"a", "b"}
Chars == {"H", "i"}
Str == UNION {[1..n -> Chars] : n \in 0..MaxLen}

----------------------------------------------------------------------------
(* Python values returned by render(): a str (or an instance of a str     *)
(* subclass) or another object, each with or without the attributes       *)
(* to_markdown and to_html; an attribute is a method or a non-callable.    *)

Attr == {"absent", "attr", "method"}

Val == [isStr : BOOLEAN, data : Str, to_markdown : Attr, to_html : Attr]

PyStr(s) == [isStr |-> TRUE, data |-> s, to_markdown |-> "absent", to_html |-> "absent"]

PyObj(s, md, html) == [isStr |-> FALSE, data |-> s, to_markdown |-> md, to_html |-> html]

hasattr(obj, name) == obj[name] # "absent"

callable(obj, name) == obj[name] = "method"

isinstance_str(obj) == obj.isStr

\* The text the object's to_html() / to_markdown() method returns, and the
\* text of the host's generic formatter for it.
to_html(obj) == <<"<">> \o obj.data

to_markdown(obj) == <<"#">> \o obj.data

format(obj) == <<"?">> \o obj.data

----------------------------------------------------------------------------
(* Results of a call: a returned payload or a raised exception *)

Return(mime, payload) == [ok |-> TRUE, mime |-> mime, payload |-> payload, err |-> "none"]

Raise(err) == [ok |-> FALSE, mime |-> "none", payload |-> <<>>, err |-> err]

NoRes == [ok |-> TRUE, mime |-> "none", payload |-> <<>>, err |-> "none"]

----------------------------------------------------------------------------
(* Capability checks *)

is_html_representable(obj) == hasattr(obj, "to_html") /\ callable(obj, "to_html")

is_markdown_representable(obj) == hasattr(obj, "to_markdown") /\ callable(obj, "to_markdown")

----------------------------------------------------------------------------
(* Classes.  Every class below declares the fields content and role and   *)
(* renders its content field, as spork.Markdown does.                      *)
(*   ViewModel      a subclass of ViewModel                                *)
(*   AutoViewModel  a subclass of AutoViewModel                            *)
(*   HtmlAuto       a subclass of ViewModel under @html and @auto_update   *)
(*   Markdown       spork.Markdown: AutoUpdate under @markdown             *)

Classes == {"ViewModel", "AutoViewModel", "HtmlAuto", "Markdown"}

Decorated == {"HtmlAuto", "Markdown"}

NoView == [cls |-> "none", display_id |-> "", content |-> PyStr(<<>>), role |-> "user"]

\* display_id: str = Field(default_factory=lambda: str(uuid.uuid4())):
\* the n-th identifier the generator hands out; no two draws are equal.
uuid4(n) == IF n = 1 THEN "uuid-1" ELSE IF n = 2 THEN "uuid-2" ELSE "uuid-3"

\* strings a caller assigns to display_id
ExplicitIds == {"x"}

render(self) == self.content

\* _repr_html_ returning the object instead of calling its to_html()
repr_html_uncalled(self) ==
    LET rendered == render(self) IN
    IF isinstance_str(rendered) \/ hasattr(rendered, "to_html")
    THEN Return("text/html", rendered.data)
    ELSE Raise("ValueError")

\* ViewModel._repr_html_
repr_html(self) ==
    LET rendered == render(self) IN
    IF isinstance_str(rendered) THEN Return("text/html", rendered.data)
    ELSE IF hasattr(rendered, "to_html")
         THEN IF callable(rendered, "to_html")
              THEN Return("text/html", to_html(rendered))
              ELSE Raise("TypeError")
         ELSE Raise("ValueError")

\* _repr_mimebundle_ probing for HTML before Markdown
repr_mimebundle_html_first(self, default, ipy) ==
    LET rendered == render(self) IN
    IF isinstance_str(rendered)
    THEN IF default = "html" THEN Return("text/html", rendered.data)
                             ELSE Return("text/markdown", rendered.data)
    ELSE IF is_html_representable(rendered)
         THEN Return("text/html", to_html(rendered))
    ELSE IF is_markdown_representable(rendered)
         THEN Return("text/markdown", to_markdown(rendered))
    ELSE IF ipy = "no_ip" \/ ipy = "no_formatter"
         THEN Raise("ValueError")
         ELSE Return("formatted", format(rendered))

\* renderable(cls, default)._repr_mimebundle_, with the state of get_ipython()
repr_mimebundle(self, default, ipy) ==
    LET rendered == render(self) IN
    IF isinstance_str(rendered)
    THEN IF default = "html" THEN Return("text/html", rendered.data)
                             ELSE Return("text/markdown", rendered.data)
    ELSE IF is_markdown_representable(rendered)
         THEN Return("text/markdown", to_markdown(rendered))
    ELSE IF is_html_representable(rendered)
         THEN Return("text/html", to_html(rendered))
    ELSE IF ipy = "no_ip" \/ ipy = "no_formatter"
         THEN Raise("ValueError")
         ELSE Return("formatted", format(rendered))

markdown(self, ipy) == repr_mimebundle(self, "markdown", ipy)

html(self, ipy) == repr_mimebundle(self, "html", ipy)

IpStates == {"no_ip", "no_formatter", "formatter"}

\* The payload the host obtains from the object it is asked to display.
Bundle(self) ==
    IF self.cls = "Markdown" THEN markdown(self, ip)
    ELSE IF self.cls = "HtmlAuto" THEN html(self, ip)
    ELSE repr_html(self)

\* IPython.display.display(obj, display_id=..., update=...): the log of host
\* calls after it and what the call returned or raised.  by records the
\* calling instance.
IPython_display(log, self, by, display_id, upd) ==
    LET r == Bundle(self) IN
    IF r.ok
    THEN [log |-> Append(log, [op |-> IF upd THEN "refresh" ELSE "publish",
                               token |-> display_id, mime |-> r.mime,
                               payload |-> r.payload, by |-> by]),
          res |-> r]
    ELSE [log |-> log, res |-> r]

\* ViewModel.display
display(log, self, by) == IPython_display(log, self, by, self.display_id, FALSE)

\* update() leaving out update=True
update_as_publish(log, self, by) == IPython_display(log, self, by, self.display_id, FALSE)

\* ViewModel.update
update(log, self, by) == IPython_display(log, self, by, self.display_id, TRUE)

\* pydantic BaseModel.__setattr__
BaseModel_setattr(self, name, value) == [self EXCEPT ![name] = value]

\* Every modelled class inherits update() from ViewModel.
HasUpdate(self) == self.cls \in Classes

Written(log, self) == [self |-> self, log |-> log, res |-> NoRes]

Refreshed(log, self, by) ==
    LET u == update(log, self, by) IN [self |-> self, log |-> u.log, res |-> u.res]

\* __setattr__ calling update() before the write
AutoViewModel_setattr_early(log, self, name, value, by) ==
    LET s1 == BaseModel_setattr(self, name, value) IN
    IF name # "display_id"
    THEN [self |-> s1, log |-> update(log, self, by).log, res |-> update(log, self, by).res]
    ELSE Written(log, s1)

\* __setattr__ catching what update() raises
AutoViewModel_setattr_quiet(log, self, name, value, by) ==
    LET s1 == BaseModel_setattr(self, name, value) IN
    IF name # "display_id"
    THEN [self |-> s1, log |-> update(log, s1, by).log, res |-> NoRes]
    ELSE Written(log, s1)

\* AutoViewModel.__setattr__
AutoViewModel_setattr(log, self, name, value, by) ==
    LET s1 == BaseModel_setattr(self, name, value) IN
    IF name # "display_id" THEN Refreshed(log, s1, by) ELSE Written(log, s1)

\* auto_update(cls).__setattr__
auto_update(log, self, name, value, by) ==
    LET s1 == BaseModel_setattr(self, name, value) IN
    IF HasUpdate(s1) /\ name # "display_id" THEN Refreshed(log, s1, by) ELSE Written(log, s1)

\* AutoUpdate.__setattr__ (the base class of spork.Markdown)
AutoUpdate_setattr(log, self, name, value, by) ==
    LET s1 == BaseModel_setattr(self, name, value) IN
    IF name # "display_id" THEN Refreshed(log, s1, by) ELSE Written(log, s1)

\* obj.name = value, dispatched on the class of obj
setattr(log, self, name, value, by) ==
    IF self.cls = "AutoViewModel" THEN AutoViewModel_setattr(log, self, name, value, by)
    ELSE IF self.cls = "HtmlAuto" THEN auto_update(log, self, name, value, by)
    ELSE IF self.cls = "Markdown" THEN AutoUpdate_setattr(log, self, name, value, by)
    ELSE Written(log, BaseModel_setattr(self, name, value))

AutoClasses == {"AutoViewModel", "HtmlAuto", "Markdown"}

\* append() assigning its argument instead of concatenating
str_add_replace(a, s) == PyStr(s)

\* str.__add__: the concatenation is a plain str
str_add(a, s) == PyStr(a.data \o s)

----------------------------------------------------------------------------------------------------------------------------------------
(* State                                                                   *)
(*   views  the instances (NoView: not constructed yet)                    *)
(*   calls  the calls the host display surface has received, in order      *)
(*   ip     get_ipython(): absent, without display formatter, or with one  *)
(*   uuids  how many identifiers uuid4 has handed out                      *)
(*   hist   per instance: pure, whether it is a Markdown constructed with  *)
(*          empty content on which only append() and display() have been   *)
(*          called, and if so appended, the strings appended; assigns, the *)
(*          number of completed assignments to fields other than           *)
(*          display_id before the first call of update(); updated, whether *)
(*          update() has been called                                       *)
(*   last   the last operation, its instance, and what it returned/raised  *)

NoHist == [pure |-> FALSE, appended |-> <<>>, assigns |-> 0, updated |-> FALSE]

Impure(h) == [h EXCEPT !.pure = FALSE, !.appended = <<>>]

Count(h, res) == [h EXCEPT !.assigns = @ + (IF res.ok /\ ~h.updated THEN 1 ELSE 0)]

Op(op, id, name, res) == [op |-> op, id |-> id, name |-> name, res |-> res]

\* values assigned to the content field
InputVals ==
    { PyStr(<<>>), PyStr(<<"H">>),
      PyObj(<<>>, "absent", "method"),
      PyObj(<<>>, "absent", "absent") }

Init ==
    /\ views = [i \in Ids |-> NoView]
    /\ calls = <<>>
    /\ ip \in IpStates
    /\ uuids = 0
    /\ hist = [i \in Ids |-> NoHist]
    /\ last = Op("init", "a", "none", NoRes)

\* cls(content=c)
New(i, cls, c) ==
    /\ views[i].cls = "none"
    /\ cls = "Markdown" => isinstance_str(c)
    /\ views' = [views EXCEPT ![i] =
                   [cls |-> cls, content |-> c, role |-> "user",
                    display_id |-> uuid4(uuids + 1)]]
    /\ hist' = [hist EXCEPT ![i] = [NoHist EXCEPT !.pure = (cls = "Markdown" /\ c = PyStr(<<>>))]]
    /\ uuids' = uuids + 1
    /\ last' = Op("new", i, "none", NoRes)
    /\ UNCHANGED <<calls, ip>>

\* views[i].display()
Display(i) ==
    /\ views[i].cls # "none"
    /\ Len(calls) < MaxCalls
    /\ LET d == display(calls, views[i], i) IN
       /\ calls' = d.log
       /\ last' = Op("display", i, "none", d.res)
    /\ UNCHANGED <<views, ip, uuids, hist>>

\* views[i].update()
Update(i) ==
    /\ views[i].cls # "none"
    /\ Len(calls) < MaxCalls
    /\ LET u == update(calls, views[i], i) IN
       /\ calls' = u.log
       /\ last' = Op("update", i, "none", u.res)
    /\ hist' = [hist EXCEPT ![i] = [Impure(@) EXCEPT !.updated = TRUE]]
    /\ UNCHANGED <<views, ip, uuids>>

\* views[i].name = value
Assign(i, name, value, op) ==
    LET w == setattr(calls, views[i], name, value, i) IN
    /\ views' = [views EXCEPT ![i] = w.self]
    /\ calls' = w.log
    /\ last' = Op(op, i, name, w.res)
    /\ UNCHANGED <<ip, uuids>>

SetContent(i, value) ==
    /\ views[i].cls # "none"
    /\ Len(calls) < MaxCalls
    /\ hist[i].assigns < MaxCalls
    /\ Assign(i, "content", value, "setattr")
    /\ hist' = [hist EXCEPT ![i] = Count(Impure(@), last'.res)]

SetRole(i) ==
    /\ views[i].cls # "none"
    /\ Len(calls) < MaxCalls
    /\ hist[i].assigns < MaxCalls
    /\ Assign(i, "role", "user", "setattr")
    /\ hist' = [hist EXCEPT ![i] = Count(Impure(@), last'.res)]

SetDisplayId(i, tok) ==
    /\ views[i].cls # "none"
    /\ Assign(i, "display_id", tok, "setattr")
    /\ UNCHANGED hist

\* Markdown.append: self.content += content
Markdown_append(i, s) ==
    /\ views[i].cls = "Markdown"
    /\ Len(calls) < MaxCalls
    /\ hist[i].assigns < MaxCalls
    /\ Len(views[i].content.data) + Len(s) <= MaxLen
    /\ IF isinstance_str(views[i].content)
       THEN /\ Assign(i, "content", str_add(views[i].content, s), "append")
            /\ hist' = [hist EXCEPT ![i] =
                          Count([hist[i] EXCEPT !.appended = IF hist[i].pure THEN Append(@, s) ELSE @],
                                last'.res)]
       ELSE /\ last' = Op("append", i, "content", Raise("TypeError"))
            /\ UNCHANGED <<views, calls, ip, uuids, hist>>

\* a nested change that is observed and refreshes the display
MutateNested_observed(i, c) ==
    /\ views[i].cls # "none"
    /\ ~isinstance_str(views[i].content)
    /\ Len(views[i].content.data) < MaxLen
    /\ Len(calls) < MaxCalls
    /\ views' = [views EXCEPT ![i].content.data = Append(@, c)]
    /\ calls' = update(calls, views'[i], i).log
    /\ last' = Op("mutate", i, "none", NoRes)
    /\ UNCHANGED <<ip, uuids, hist>>

\* An in-place change of the object held by the content field (an item
\* appended to a list it holds): no attribute of the view is assigned.
MutateNested(i, c) ==
    /\ views[i].cls # "none"
    /\ ~isinstance_str(views[i].content)
    /\ Len(views[i].content.data) < MaxLen
    /\ views' = [views EXCEPT ![i].content.data = Append(@, c)]
    /\ last' = Op("mutate", i, "none", NoRes)
    /\ UNCHANGED <<calls, ip, uuids, hist>>

Next ==
    \/ \E cls \in Classes, c \in InputVals : New("a", cls, c)
    \/ Display("a")
    \/ Update("a")
    \/ \E v \in InputVals : SetContent("a", v)
    \/ SetRole("a")
    \/ \E tok \in ExplicitIds : SetDisplayId("a", tok)
    \/ \E s \in {<<>>, <<"H">>, <<"i">>} : Markdown_append("a", s)
    \/ MutateNested("a", "i")

\* The life of one instance.
Spec == Init /\ [][Next]_vars

----------------------------------------------------------------------------
(* Two instances side by side, each rendering the string "H". *)

TwoClasses == {"ViewModel", "AutoViewModel"}

NextTwo ==
    \/ \E i \in Ids, cls \in TwoClasses : New(i, cls, PyStr(<<"H">>))
    \/ \E i \in Ids : Display(i)
    \/ \E i \in Ids : Update(i)
    \/ \E i \in Ids : SetRole(i)
    \/ \E i \in Ids, tok \in ExplicitIds : SetDisplayId(i, tok)
    \/ \E i \in Ids, j \in Ids : views[j].cls # "none" /\ SetDisplayId(i, views[j].display_id)

SpecTwo == Init /\ [][NextTwo]_vars

----------------------------------------------------------------------------
(* The payload-producing methods called directly on one instance whose     *)
(* render() returns any value of Val.                                      *)

NegInit ==
    /\ \E cls \in Classes, c \in Val :
         views = [i \in Ids |-> IF i = "a"
                                THEN [cls |-> cls, display_id |-> uuid4(1),
                                      content |-> c, role |-> "user"]
                                ELSE NoView]
    /\ calls = <<>>
    /\ ip \in IpStates
    /\ uuids = 1
    /\ hist = [i \in Ids |-> NoHist]
    /\ last = Op("init", "a", "none", NoRes)

\* views[i]._repr_html_()
Call_repr_html(i) ==
    /\ views[i].cls # "none"
    /\ last' = Op("_repr_html_", i, "none", repr_html(views[i]))
    /\ UNCHANGED <<views, calls, ip, uuids, hist>>

\* views[i]._repr_mimebundle_()
Call_repr_mimebundle(i) ==
    /\ views[i].cls \in Decorated
    /\ last' = Op("_repr_mimebundle_", i, "none", Bundle(views[i]))
    /\ UNCHANGED <<views, calls, ip, uuids, hist>>

NegNext ==
    \/ Call_repr_html("a")
    \/ Call_repr_mimebundle("a")

SpecNeg == NegInit /\ [][NegNext]_vars

----------------------------------------------------------------------------
(* Properties *)

AutoView(i) == views[i].cls \in AutoClasses

\* The host call a completed display()/update() of self sends.
HostCall(kind, self, by) ==
    [op |-> kind, token |-> self.display_id, mime |-> Bundle(self).mime,
     payload |-> Bundle(self).payload, by |-> by]

RefreshesBy(i) == SelectSeq(calls, LAMBDA c : c.op = "refresh" /\ c.by = i)

Assigned == last'.op \in {"setattr", "append"}

\* C1: on an auto-updating view, every completed assignment to a field other
\* than display_id sends exactly one refresh, tagged with the view's
\* display_id and carrying the payload of the state after the assignment,
\* before the assignment returns; an assignment to display_id sends nothing.
\* While update() has not been called, the refreshes the view has sent are
\* as many as those assignments.
C1_OneRefreshPerAssignment ==
    /\ [](\A i \in Ids : (AutoView(i) /\ ~hist[i].updated) =>
                             Len(RefreshesBy(i)) = hist[i].assigns)
    /\ [][ \A i \in Ids :
          (Assigned /\ last'.id = i /\ AutoView(i)) =>
             /\ last'.name = "display_id" => calls' = calls /\ last'.res = NoRes
             /\ (last'.name # "display_id" /\ last'.res.ok) =>
                    /\ calls' = Append(calls, HostCall("refresh", views'[i], i))
                    /\ last'.res = Bundle(views'[i]) ]_vars

\* two assignments to non-identity fields of an auto-updating view have
\* completed and two refreshes have been sent
C1_Witness ==
    /\ AutoView("a")
    /\ last.op = "setattr" /\ last.name = "role" /\ last.res.ok
    /\ Len(calls) = 2
    /\ \A k \in 1..2 : calls[k].op = "refresh"
    /\ calls[1].payload # calls[2].payload
    /\ hist["a"].assigns = 2 /\ ~hist["a"].updated

RECURSIVE Concat(_)
Concat(ss) == IF ss = <<>> THEN <<>> ELSE Concat(SubSeq(ss, 1, Len(ss) - 1)) \o ss[Len(ss)]

\* C2: for a Markdown constructed with empty content on which append(s1),
\* ..., append(sn) have been called, exactly n refreshes have been sent and
\* the k-th carries s1 + ... + sk as text/markdown.
C2_AppendRefreshes ==
    \A i \in Ids :
       hist[i].pure =>
          /\ Len(RefreshesBy(i)) = Len(hist[i].appended)
          /\ \A k \in 1..Len(hist[i].appended) :
                /\ RefreshesBy(i)[k].payload = Concat(SubSeq(hist[i].appended, 1, k))
                /\ RefreshesBy(i)[k].mime = "text/markdown"

\* append("H") then append("i"): refreshes "H" and "Hi"
C2_Witness ==
    /\ hist["a"].pure
    /\ hist["a"].appended = << <<"H">>, <<"i">> >>
    /\ Len(RefreshesBy("a")) = 2
    /\ RefreshesBy("a")[2].payload = <<"H", "i">>

\* C3: display_id is a non-empty string from construction on and keeps its
\* value through every later operation.
C3_TokenConstant ==
    [][ \A i \in Ids :
          /\ (views[i].cls = "none" /\ views'[i].cls # "none") => views'[i].display_id # ""
          /\ views[i].cls # "none" => views'[i].display_id = views[i].display_id ]_vars

Rendered == render(views[last.id])

DefaultMime(self) == IF self.cls = "Markdown" THEN "text/markdown" ELSE "text/html"

\* C5: content negotiation applies its rules in order: a string is the
\* payload under the default type of the decorator; otherwise a
\* Markdown-representable result gives its Markdown output; otherwise an
\* HTML-representable result gives its HTML output.
C5_NegotiationOrder ==
    last.op = "_repr_mimebundle_" =>
       /\ isinstance_str(Rendered) =>
             last.res = Return(DefaultMime(views[last.id]), Rendered.data)
       /\ (~isinstance_str(Rendered) /\ Rendered.to_markdown = "method") =>
             last.res = Return("text/markdown", <<"#">> \o Rendered.data)
       /\ (~isinstance_str(Rendered) /\ Rendered.to_markdown # "method"
             /\ Rendered.to_html = "method") =>
             last.res = Return("text/html", <<"<">> \o Rendered.data)

\* an object with both capabilities went through negotiation under @html
C5_Witness ==
    /\ last.op = "_repr_mimebundle_"
    /\ views[last.id].cls = "HtmlAuto"
    /\ ~isinstance_str(Rendered)
    /\ Rendered.to_markdown = "method" /\ Rendered.to_html = "method"
    /\ last.res.mime = "text/markdown"

PayloadOp == last.op \in {"_repr_html_", "_repr_mimebundle_"}

ExposesHtml == ~isinstance_str(Rendered) /\ Rendered.to_html = "method"

\* C6 as stated: whenever render() returns an object with an HTML-producing
\* method, the payload of either path is that method's return value.
C6_Original ==
    (PayloadOp /\ ExposesHtml) => last.res = Return("text/html", <<"<">> \o Rendered.data)

\* C6 amended: for a non-string object with an HTML-producing method the
\* payload of _repr_html_ is that method's return value, and so is the
\* payload of _repr_mimebundle_ unless the object also has a
\* Markdown-producing method, in which case it is the Markdown output.
C6_HtmlPayload ==
    (PayloadOp /\ ExposesHtml) =>
       IF last.op = "_repr_mimebundle_" /\ Rendered.to_markdown = "method"
       THEN last.res = Return("text/markdown", <<"#">> \o Rendered.data)
       ELSE last.res = Return("text/html", <<"<">> \o Rendered.data)

\* content negotiation returned the HTML output of an object whose
\* to_markdown attribute is not callable
C6_Witness ==
    /\ last.op = "_repr_mimebundle_"
    /\ ExposesHtml /\ Rendered.to_markdown = "attr"
    /\ Len(Rendered.data) = 2
    /\ last.res.payload = <<"<">> \o Rendered.data

Unsupported ==
    /\ ~isinstance_str(Rendered)
    /\ Rendered.to_markdown # "method"
    /\ Rendered.to_html # "method"

\* C7: when render() returns a non-string without a Markdown- or
\* HTML-producing method and there is no fallback formatter, producing the
\* payload raises the content error (ValueError).
C7_ContentError ==
    (PayloadOp /\ Unsupported /\ ip # "formatter") => last.res = Raise("ValueError")

\* C8: two instances never hold the same display_id, and no call sent by one
\* carries a display_id that a call of the other carries.
C8_DistinctTokens ==
    \A i \in Ids, j \in Ids :
       (i # j /\ views[i].cls # "none" /\ views[j].cls # "none") =>
          /\ views[i].display_id # views[j].display_id
          /\ \A k \in 1..Len(calls), l \in 1..Len(calls) :
                (calls[k].by = i /\ calls[l].by = j) => calls[k].token # calls[l].token

\* C9: on an auto-updating view an in-place change of the object held by a
\* field sends nothing to the host, and a refresh reaches the host only from
\* an attribute assignment or an explicit update().
C9_NestedInvisible ==
    [][ /\ last'.op = "mutate" => calls' = calls
        /\ (Len(calls') > Len(calls) /\ calls'[Len(calls')].op = "refresh") =>
              last'.op \in {"setattr", "append", "update"} ]_vars

\* the entry of an auto-updating view shows the content of its last refresh
\* although the object it renders has changed since
C9_Witness ==
    /\ last.op = "mutate" /\ AutoView(last.id)
    /\ Len(calls) > 0
    /\ calls[Len(calls)].op = "refresh" /\ calls[Len(calls)].by = last.id
    /\ Bundle(views[last.id]).ok
    /\ calls[Len(calls)].payload # Bundle(views[last.id]).payload

\* C10: on an auto-updating view, when the payload cannot be produced from
\* the state after an assignment to a field other than display_id, the
\* assignment raises that error, the field holds the assigned value, the
\* display_id is unchanged and the host receives nothing.
C10_FailedRefresh ==
    [][ \A i \in Ids, v \in InputVals :
          (SetContent(i, v) /\ AutoView(i) /\ ~Bundle([views[i] EXCEPT !.content = v]).ok) =>
             /\ last'.res = Bundle([views[i] EXCEPT !.content = v])
             /\ last'.res.err \in {"ValueError", "TypeError"}
             /\ views'[i].content = v
             /\ views'[i].display_id = views[i].display_id
             /\ calls' = calls ]_vars

\* an assignment on a displayed auto-updating view has raised: the field
\* holds the unsupported value and the host entry the earlier content
C10_Witness ==
    /\ last.op = "setattr" /\ last.name = "content" /\ AutoView(last.id)
    /\ last.res.err = "ValueError"
    /\ views[last.id].content = PyObj(<<>>, "absent", "absent")
    /\ Len(calls) > 0
    /\ calls[Len(calls)].payload = <<"H">>

====
